---- MODULE Spec2Model ----
(***************************************************************************)
(* Dispatch engine of react-keyhub: src/src/EventBus.ts (first snapshot,   *)
(* lines 1-608) and src/src/utils.ts.                                      *)
(*                                                                         *)
(* Strings that the code splits are kept in split form: a key string is    *)
(* the sequence of its space-separated chords and a chord is the sequence  *)
(* of its '+'-separated parts, so split and join are the structure itself. *)
(* A shortcut id (no ' ' and no '+') is the key string Str(id).            *)
(***************************************************************************)
EXTENDS Integers, Sequences, FiniteSets, TLC

VARIABLES
  shortcuts,        \* this.shortcuts, entries in Object.entries order
  subscriptions,    \* this.subscriptions, Map entries in insertion order
  options,          \* this.options
  isListening,      \* this.isListening
  listeners,        \* keydown listeners attached to options.target
  debounce,         \* the closure of debounce(): its timeout and the args
  calls,            \* the events the debounced listener was called with
                    \* since keydownHandler last ran before them
  destroyed,        \* destroy() has returned
  activeContext,    \* this.activeContext
  sequenceBuffer,   \* this.sequenceBuffer
  sequenceTimer,    \* this.sequenceTimer: a timer handle, 0 for null
  paused,           \* this.paused
  timers,           \* the host's pending setTimeout timers
  nextSubId,        \* the next value generateId() returns
  log,              \* what the last step did to the event and the handlers
  lastOp,           \* the last operation and its arguments
  fed,              \* chords dispatched since the last idle window elapsed
  mark,             \* how many chords of fed a sequence match has consumed
  idle,             \* ticks since the last dispatched chord
  hook,             \* a component's useShortcut / useKey call: its refs,
                    \* its props at the last render, what it returned
  provided          \* the shortcuts map of the provider's context value

vars == <<shortcuts, subscriptions, options, isListening, listeners,
          debounce, calls, destroyed, activeContext, sequenceBuffer,
          sequenceTimer, paused, timers, nextSubId, log, lastOp, fed, mark, idle, hook,
          provided>>

\* what only construction, listening and teardown change
lifecycle == <<isListening, listeners, debounce, calls, destroyed>>

\* what only a component and its provider change
react == <<hook, provided>>

----------------------------------------------------------------------------
(* Bounds *)

SequenceTimeout == 2   \* options.sequenceTimeout, in ticks
MaxSubs == 2           \* number of on() calls that return an id
MaxSeqSubs == 1        \* the same, where sequences are matched
MaxFed == 2            \* key events dispatched within one idle window
MaxId == 2             \* distinct non-empty values of generateId()
MaxParts == 3          \* '+'-separated parts of a chord given to normalize
MaxChords == 2         \* space-separated chords of a sequence given to it
MaxBurst == 2          \* calls of the debounced listener within one wait

----------------------------------------------------------------------------
(* Strings *)

Str(t) == << <<t>> >>
EmptyString == << <<"">> >>
Undefined == << >>
NoContext == ""
Null == "null"

Join(strs) ==
  LET RECURSIVE J(_)
      J(i) == IF i > Len(strs) THEN << >> ELSE strs[i] \o J(i + 1)
  IN  J(1)

toLowerCase(t) ==
  CASE t = "gitCommands" -> "gitcommands"
    [] t = "goToFile" -> "gotofile"
    [] t = "Control" -> "control"
    [] t = "Shift" -> "shift"
    [] t = "Alt" -> "alt"
    [] t = "Ctrl" -> "ctrl"
    [] t = "Escape" -> "escape"
    [] t = "G" -> "g"
    [] t = "C" -> "c"
    [] t = "P" -> "p"
    [] t = "X" -> "x"
    [] t = "S" -> "s"
    [] OTHER -> t

ModifierNames ==
  {"ctrl", "control", "alt", "option", "shift", "meta", "cmd", "command",
   "win", "windows"}

ModifierOrder == <<"alt", "ctrl", "meta", "shift">>

\* Array.from(new Set(mods)).sort() (without Set and sort it would be
\* Unsorted)
Unsorted(mods) == mods
SortedUnique(mods) ==
  SelectSeq(ModifierOrder, LAMBDA m : \E i \in 1..Len(mods) : mods[i] = m)

normalizeModifier(mod) ==
  IF mod = "control" THEN "ctrl"
  ELSE IF mod = "option" THEN "alt"
  ELSE IF mod \in {"cmd", "command", "win", "windows"} THEN "meta"
  ELSE mod

normalizeMainKey(key) ==
  IF key = "space" THEN "space"
  ELSE IF key = "escape" THEN "esc"
  ELSE IF key = "arrowup" THEN "up"
  ELSE IF key = "arrowdown" THEN "down"
  ELSE IF key = "arrowleft" THEN "left"
  ELSE IF key = "arrowright" THEN "right"
  ELSE key

\* normalizeKeyCombo on a string without a space, were toLowerCase applied
\* to the result and not to the input
normalizeChord_caseLast(rawParts) ==
  LET modifiers == SelectSeq(rawParts, LAMBDA p : p \in ModifierNames)
      normalizedModifiers ==
        [i \in 1..Len(modifiers) |-> normalizeModifier(modifiers[i])]
      mainKeys == SelectSeq(rawParts, LAMBDA p : p \notin ModifierNames)
      normalizedMainKeys ==
        [i \in 1..Len(mainKeys) |-> normalizeMainKey(mainKeys[i])]
      uniqueModifiers == SortedUnique(normalizedModifiers)
      kept == SelectSeq(uniqueModifiers \o normalizedMainKeys,
                        LAMBDA p : p # "")
  IN  IF kept = << >> THEN <<"">>
      ELSE [i \in 1..Len(kept) |-> toLowerCase(kept[i])]

\* normalizeKeyCombo on a string without a space
normalizeChord(rawParts) ==
  LET parts == [i \in 1..Len(rawParts) |-> toLowerCase(rawParts[i])]
      modifiers == SelectSeq(parts, LAMBDA p : p \in ModifierNames)
      normalizedModifiers ==
        [i \in 1..Len(modifiers) |-> normalizeModifier(modifiers[i])]
      mainKeys == SelectSeq(parts, LAMBDA p : p \notin ModifierNames)
      normalizedMainKeys ==
        [i \in 1..Len(mainKeys) |-> normalizeMainKey(mainKeys[i])]
      uniqueModifiers == SortedUnique(normalizedModifiers)
      kept == SelectSeq(uniqueModifiers \o normalizedMainKeys,
                        LAMBDA p : p # "")
  IN  IF kept = << >> THEN <<"">> ELSE kept

normalizeKeyCombo(keyCombo) ==
  IF keyCombo = Undefined \/ keyCombo = EmptyString THEN EmptyString
  ELSE [i \in 1..Len(keyCombo) |-> normalizeChord(keyCombo[i])]

KeyEvent(ctrl, alt, shift, meta, key, target) ==
  [ctrlKey |-> ctrl, altKey |-> alt, shiftKey |-> shift, metaKey |-> meta,
   key |-> key, target |-> target]

eventToKeyCombo(event) ==
  LET modifiers ==
        (IF event.ctrlKey THEN <<"ctrl">> ELSE << >>)
        \o (IF event.altKey THEN <<"alt">> ELSE << >>)
        \o (IF event.shiftKey THEN <<"shift">> ELSE << >>)
        \o (IF event.metaKey THEN <<"meta">> ELSE << >>)
      sorted == SortedUnique(modifiers)
      key == toLowerCase(event.key)
      normalizedKey ==
        IF key = "arrowright" THEN "right"
        ELSE IF key = "arrowleft" THEN "left"
        ELSE IF key = "arrowdown" THEN "down"
        ELSE IF key = "arrowup" THEN "up"
        ELSE IF key = "escape" THEN "esc"
        ELSE IF key = " " THEN "space"
        ELSE key
  IN  IF key \in {"control", "ctrl", "alt", "shift", "meta", "command", "cmd"}
      THEN IF sorted = << >> THEN EmptyString ELSE <<sorted>>
      ELSE <<sorted \o <<normalizedKey>> >>

----------------------------------------------------------------------------
(* Registry and subscription table *)

Regular(keyCombo, priority, context, action) ==
  [type |-> "regular", keyCombo |-> keyCombo, sequence |-> Undefined,
   priority |-> priority, status |-> "enabled", context |-> context,
   action |-> action]

Sequence(sequence, priority, context, action) ==
  [type |-> "sequence", keyCombo |-> Undefined, sequence |-> sequence,
   priority |-> priority, status |-> "enabled", context |-> context,
   action |-> action]

ConfigFields ==
  {"type", "keyCombo", "sequence", "priority", "status", "context", "action"}

\* one entry of Object.entries(this.shortcuts)
Entry(id, config) ==
  [f \in ConfigFields \cup {"id"} |-> IF f = "id" THEN id ELSE config[f]]

\* id is a key of the registry object itself
Own(id) == \E i \in 1..Len(shortcuts) : shortcuts[i].id = id

\* names that a plain object inherits from Object.prototype
InheritedNames == {"constructor", "toString"}

\* what this.shortcuts[id] gives for an inherited name: a function, whose
\* type, keyCombo, sequence, priority, status, context and action are all
\* undefined (the priority is written 0: such priorities compare as equal)
PrototypeMember ==
  [type |-> "undefined", keyCombo |-> Undefined, sequence |-> Undefined,
   priority |-> 0, status |-> "undefined", context |-> NoContext,
   action |-> "none"]

\* this.shortcuts[id] is truthy
HasShortcut(id) == Own(id) \/ id \in InheritedNames

\* this.shortcuts[id]
Shortcut(id) ==
  IF Own(id)
  THEN shortcuts[CHOOSE i \in 1..Len(shortcuts) : shortcuts[i].id = id]
  ELSE Entry(id, PrototypeMember)

HasKey(key) == \E i \in 1..Len(subscriptions) : subscriptions[i].key = key

KeyIndex(key) ==
  CHOOSE i \in 1..Len(subscriptions) : subscriptions[i].key = key

\* this.subscriptions.get(key) || []
getSubscriptions(key) ==
  IF HasKey(key) THEN subscriptions[KeyIndex(key)].subs ELSE << >>

\* Map.set(key, subs): an existing key keeps its place, a new key goes last
setSubscriptions(key, subs) ==
  IF HasKey(key)
  THEN [subscriptions EXCEPT ![KeyIndex(key)].subs = subs]
  ELSE Append(subscriptions, [key |-> key, subs |-> subs])

\* every subscription, in Map.forEach order
AllSubscriptions ==
  LET RECURSIVE F(_)
      F(i) == IF i > Len(subscriptions) THEN << >>
              ELSE subscriptions[i].subs \o F(i + 1)
  IN  F(1)

\* s.sort((a, b) => b.priority - a.priority), a stable sort (a list left as
\* pushed would be sortByPriority_asPushed)
sortByPriority_asPushed(s) == s
RECURSIVE sortByPriority(_)
sortByPriority(s) ==
  IF s = << >> THEN << >>
  ELSE LET x == s[Len(s)]
           t == sortByPriority(SubSeq(s, 1, Len(s) - 1))
           k == Cardinality({i \in 1..Len(t) : t[i].priority >= x.priority})
       IN  SubSeq(t, 1, k) \o <<x>> \o SubSeq(t, k + 1, Len(t))

ContextMatches(config) ==
  config.context = NoContext \/ activeContext = config.context

----------------------------------------------------------------------------
(* What a dispatch does to the event and to the handlers *)

LogEntry(op, by, id, sub, threw) ==
  [op |-> op, by |-> by, id |-> id, sub |-> sub, threw |-> threw]

Selected(by, id) ==
  <<LogEntry("select", by, id, 0, FALSE)>>
  \o (IF options.preventDefault
      THEN <<LogEntry("preventDefault", by, id, 0, FALSE)>> ELSE << >>)
  \o (IF options.stopPropagation
      THEN <<LogEntry("stopPropagation", by, id, 0, FALSE)>> ELSE << >>)

Callback(by, sub) ==
  <<LogEntry("callback", by, sub.shortcutId, sub.id, sub.throws)>>

DefaultAction(by, config) ==
  IF config.action = "none" THEN << >>
  ELSE <<LogEntry("action", by, config.id, 0, config.action = "throws")>>

SomeHandled(subs) == \E i \in 1..Len(subs) : ~subs[i].throws

----------------------------------------------------------------------------
(* Timers of the host *)

clearTimeout(ts, handle) == {t \in ts : t.h # handle}

NewHandle(ts) ==
  CHOOSE h \in 1..(Cardinality(ts) + 1) : \A t \in ts : t.h # h

setTimeout(ts, wait) == ts \cup {[h |-> NewHandle(ts), left |-> wait]}

----------------------------------------------------------------------------
(* handleSequence *)

\* the buffer after the push (a buffer that kept only the last chord would
\* be pushedBuffer_lastOnly)
pushedBuffer_lastOnly(keyCombo) == <<keyCombo>>
pushedBuffer(keyCombo) == Append(sequenceBuffer, keyCombo)

currentSequence(keyCombo) == Join(pushedBuffer(keyCombo))

\* the definitions whose trigger is the joined buffer (a filter that also
\* asked for an enabled definition would be sequenceShortcuts_enabled)
sequenceShortcuts_enabled(keyCombo) ==
  SelectSeq(shortcuts,
            LAMBDA config : /\ config.type = "sequence"
                            /\ config.sequence = currentSequence(keyCombo)
                            /\ config.status = "enabled")
sequenceShortcuts(keyCombo) ==
  SelectSeq(shortcuts,
            LAMBDA config : /\ config.type = "sequence"
                            /\ config.sequence = currentSequence(keyCombo))

\* the callback loop: stops after the first callback that returns
sequenceCallbacks(subs) ==
  LET RECURSIVE L(_)
      L(i) == IF i > Len(subs) THEN << >>
              ELSE Callback("sequence", subs[i])
                   \o (IF subs[i].throws THEN L(i + 1) ELSE << >>)
  IN  L(1)

\* the body of sequenceShortcuts.forEach for one matching definition
sequenceFire(config) ==
  IF config.status = "disabled" THEN << >>
  ELSE IF config.context # NoContext /\ activeContext # config.context
  THEN << >>
  ELSE LET subs == getSubscriptions(Str(config.id))
       IN  Selected("sequence", config.id)
           \o sequenceCallbacks(subs)
           \o (IF ~SomeHandled(subs)
               THEN DefaultAction("sequence", config) ELSE << >>)

handleSequenceLog(keyCombo) ==
  LET matches == sequenceShortcuts(keyCombo)
      RECURSIVE F(_)
      F(i) == IF i > Len(matches) THEN << >>
              ELSE sequenceFire(matches[i]) \o F(i + 1)
  IN  F(1)

\* the timers once the timer was reset for the new chord (without the
\* clearTimeout they would be restartedTimers_kept)
restartedTimers_kept == setTimeout(timers, SequenceTimeout)
restartedTimers ==
  setTimeout(IF sequenceTimer # 0 THEN clearTimeout(timers, sequenceTimer)
             ELSE timers,
             SequenceTimeout)

restartedTimer ==
  NewHandle(IF sequenceTimer # 0 THEN clearTimeout(timers, sequenceTimer)
            ELSE timers)

\* handleSequence's writes (without the clearing after a match they would
\* be handleSequence_keeps)
handleSequence_keeps(keyCombo) ==
  /\ sequenceBuffer' = pushedBuffer(keyCombo)
  /\ timers' = restartedTimers
  /\ sequenceTimer' = restartedTimer
handleSequence(keyCombo) ==
  IF Len(sequenceShortcuts(keyCombo)) > 0
  THEN /\ sequenceBuffer' = << >>
       /\ timers' = clearTimeout(restartedTimers, restartedTimer)
       /\ sequenceTimer' = 0
  ELSE /\ sequenceBuffer' = pushedBuffer(keyCombo)
       /\ timers' = restartedTimers
       /\ sequenceTimer' = restartedTimer

----------------------------------------------------------------------------
(* emit *)

\* the key combination a definition is looked up by in the fallback loop
shortcutKeyCombo(config) ==
  IF config.type = "sequence" THEN config.sequence ELSE config.keyCombo

\* the subscriptions the fallback loop calls, in the order it visits them
fallbackCandidates(normalizedKeyCombo) ==
  SelectSeq(AllSubscriptions,
            LAMBDA sub :
              /\ HasShortcut(sub.shortcutId)
              /\ normalizeKeyCombo(shortcutKeyCombo(Shortcut(sub.shortcutId)))
                   = normalizedKeyCombo)

\* the fallback loop: stops after the first callback that returns
fallbackLog(normalizedKeyCombo) ==
  LET subs == fallbackCandidates(normalizedKeyCombo)
      RECURSIVE L(_)
      L(i) == IF i > Len(subs) THEN << >>
              ELSE Selected("fallback", subs[i].shortcutId)
                   \o Callback("fallback", subs[i])
                   \o (IF subs[i].throws THEN L(i + 1) ELSE << >>)
  IN  L(1)

foundByShortcutId(normalizedKeyCombo) ==
  SomeHandled(fallbackCandidates(normalizedKeyCombo))

shortcutEntries(normalizedKeyCombo) ==
  sortByPriority(
    SelectSeq(shortcuts,
              LAMBDA config :
                /\ config.type # "sequence"
                /\ normalizeKeyCombo(config.keyCombo) = normalizedKeyCombo))

\* shortcutEntries.find(enabled and context matches), << >> when none (a find
\* without the status and context test would be matchingShortcut_unfiltered)
matchingShortcut_unfiltered(normalizedKeyCombo) ==
  LET found == shortcutEntries(normalizedKeyCombo)
  IN  IF found = << >> THEN << >> ELSE <<found[1]>>
matchingShortcut(normalizedKeyCombo) ==
  LET found == SelectSeq(shortcutEntries(normalizedKeyCombo),
                         LAMBDA config : /\ config.status = "enabled"
                                         /\ ContextMatches(config))
  IN  IF found = << >> THEN << >> ELSE <<found[1]>>

registryLog(normalizedKeyCombo) ==
  LET m == matchingShortcut(normalizedKeyCombo)
  IN  IF m = << >> THEN << >>
      ELSE Selected("registry", m[1].id) \o DefaultAction("registry", m[1])

emitLog(keyCombo) ==
  LET normalizedKeyCombo == normalizeKeyCombo(keyCombo)
      direct == getSubscriptions(normalizedKeyCombo)
  IN  IF Len(direct) > 0
      THEN Selected("direct", direct[1].shortcutId)
           \o Callback("direct", direct[1])
      ELSE IF foundByShortcutId(normalizedKeyCombo)
      THEN fallbackLog(normalizedKeyCombo)
      ELSE fallbackLog(normalizedKeyCombo) \o registryLog(normalizedKeyCombo)

----------------------------------------------------------------------------
(* Operations *)

\* an operation, its arguments (id; chord, the key string or the partial
\* configuration; n), whether it took effect, and the string it returned
Returned(name, id, chord, n, ran, ret) ==
  [name |-> name, id |-> id, chord |-> chord, n |-> n, ran |-> ran,
   ret |-> ret]

Op(name, id, chord, n, ran) == Returned(name, id, chord, n, ran, Undefined)

Warn(by, id) == <<LogEntry("warn", by, id, 0, FALSE)>>

ModifierOnlyCombos ==
  { << <<"ctrl">> >>, << <<"alt">> >>, << <<"shift">> >>, << <<"meta">> >>,
    << <<"ctrl", "alt">> >>, << <<"ctrl", "shift">> >>,
    << <<"ctrl", "meta">> >>, << <<"alt", "shift">> >>,
    << <<"alt", "meta">> >>, << <<"shift", "meta">> >> }

\* the early returns of keydownHandler (without the paused test they would
\* be keydownDropped_withoutPause)
keydownDropped_withoutPause(event) ==
  \/ options.ignoreInputFields /\ event.target = "input"
  \/ /\ options.ignoreModifierOnlyEvents
     /\ eventToKeyCombo(event) \in ModifierOnlyCombos
keydownDropped(event) ==
  \/ paused
  \/ options.ignoreInputFields /\ event.target = "input"
  \/ /\ options.ignoreModifierOnlyEvents
     /\ eventToKeyCombo(event) \in ModifierOnlyCombos

\* the shortcut whose subscription the operation just before released
Released == IF lastOp.name = "off" /\ lastOp.ran THEN lastOp.id ELSE ""

\* keydownHandler (one that left emit out when a sequence completed would
\* be keydownHandler_exclusive)
keydownHandler_exclusive(event) ==
  LET keyCombo == eventToKeyCombo(event)
  IN  IF keydownDropped(event)
      THEN /\ log' = << >>
           /\ lastOp' = Op("keydown", "", keyCombo, 0, FALSE)
           /\ UNCHANGED <<sequenceBuffer, sequenceTimer, timers, fed, mark,
                          idle>>
      ELSE /\ handleSequence(keyCombo)
           /\ log' = IF Len(sequenceShortcuts(keyCombo)) > 0
                     THEN handleSequenceLog(keyCombo)
                     ELSE emitLog(keyCombo)
           /\ lastOp' = Op("keydown", Released, keyCombo, 0, TRUE)
           /\ fed' = Append(fed, keyCombo)
           /\ mark' = IF Len(sequenceShortcuts(keyCombo)) > 0
                      THEN Len(fed) + 1 ELSE mark
           /\ idle' = 0
keydownHandler(event) ==
  LET keyCombo == eventToKeyCombo(event)
  IN  IF keydownDropped(event)
      THEN /\ log' = << >>
           /\ lastOp' = Op("keydown", "", keyCombo, 0, FALSE)
           /\ UNCHANGED <<sequenceBuffer, sequenceTimer, timers, fed, mark,
                          idle>>
      ELSE /\ handleSequence(keyCombo)
           /\ log' = handleSequenceLog(keyCombo) \o emitLog(keyCombo)
           /\ lastOp' = Op("keydown", Released, keyCombo, 0, TRUE)
           /\ fed' = Append(fed, keyCombo)
           /\ mark' = IF Len(sequenceShortcuts(keyCombo)) > 0
                      THEN Len(fed) + 1 ELSE mark
           /\ idle' = 0

\* the listener receives a keydown event
KeyDown(event) ==
  /\ listeners > 0
  /\ options.debounceTime = 0
  /\ Len(fed) < MaxFed
  /\ keydownHandler(event)
  /\ UNCHANGED <<shortcuts, subscriptions, options, lifecycle,
                 activeContext, paused, nextSubId, react>>

\* the callback handleSequence gives to setTimeout (one that left the buffer
\* alone would be sequenceTimerCallback_keeps)
sequenceTimerCallback_keeps(buffer) == buffer
sequenceTimerCallback(buffer) == << >>

\* one tick of time passes; the timers that are due run
Tick ==
  LET due == {t \in timers : t.left <= 1}
  IN  /\ timers # {} \/ idle < SequenceTimeout
      /\ timers' = {[h |-> t.h, left |-> t.left - 1] : t \in timers \ due}
      /\ sequenceBuffer' = IF due # {}
                           THEN sequenceTimerCallback(sequenceBuffer)
                           ELSE sequenceBuffer
      /\ idle' = IF idle < SequenceTimeout THEN idle + 1 ELSE idle
      /\ fed' = IF idle + 1 >= SequenceTimeout THEN << >> ELSE fed
      /\ mark' = IF idle + 1 >= SequenceTimeout THEN 0 ELSE mark
      /\ log' = << >>
      /\ lastOp' = Op("tick", "",
                      IF due # {} THEN Join(sequenceBuffer) ELSE Undefined,
                      0, due # {})
      /\ UNCHANGED <<shortcuts, subscriptions, options, lifecycle,
                     activeContext, sequenceTimer, paused, nextSubId, react>>

\* the key a new subscription is stored under
storageKey(shortcutId) ==
  normalizeKeyCombo(IF Shortcut(shortcutId).type = "sequence"
                    THEN Str(shortcutId)
                    ELSE Shortcut(shortcutId).keyCombo)

\* the id on() returns for no subscription: the empty string
EmptyId == 0

\* priority: shortcut.priority, the copy a subscription is made with (a
\* subscription made without it would have priority_unset)
priority_unset(shortcutId) == 0
priority(shortcutId) == Shortcut(shortcutId).priority

\* on(shortcutId, callback) when generateId() returns subscriptionId
on(shortcutId, throws, subscriptionId) ==
  IF ~HasShortcut(shortcutId)
  THEN /\ log' = Warn("on", shortcutId)
       /\ lastOp' = Op("on", shortcutId, Undefined, EmptyId, FALSE)
       /\ UNCHANGED subscriptions
  ELSE LET normalizedKeyCombo == storageKey(shortcutId)
           subscription == [id |-> subscriptionId, throws |-> throws,
                            priority |-> priority(shortcutId),
                            shortcutId |-> shortcutId]
       IN  /\ subscriptions' =
                setSubscriptions(
                  normalizedKeyCombo,
                  sortByPriority(Append(getSubscriptions(normalizedKeyCombo),
                                        subscription)))
           /\ log' = << >>
           /\ lastOp' = Op("on", shortcutId, normalizedKeyCombo,
                           subscriptionId, TRUE)

\* on() while the values of generateId() do not repeat
On(shortcutId, throws) ==
  /\ HasShortcut(shortcutId) => nextSubId <= MaxSubs
  /\ on(shortcutId, throws, nextSubId)
  /\ nextSubId' = IF HasShortcut(shortcutId) THEN nextSubId + 1
                  ELSE nextSubId
  /\ UNCHANGED <<shortcuts, options, lifecycle, activeContext,
                 sequenceBuffer, sequenceTimer, paused, timers, fed, mark,
                 idle, react>>

\* the strings Math.random().toString(36).substring(2, 9) can be, 0 for the
\* empty one: nothing keeps a value from coming again
generateId == 0..MaxId

\* on() with any value of generateId()
OnGenerated(shortcutId, throws) ==
  \E subscriptionId \in generateId :
    /\ HasShortcut(shortcutId) => Len(AllSubscriptions) < MaxSubs
    /\ on(shortcutId, throws, subscriptionId)
    /\ UNCHANGED <<shortcuts, options, lifecycle, activeContext,
                   sequenceBuffer, sequenceTimer, paused, timers, nextSubId,
                   fed, mark, idle, react>>

HoldsSubscription(entry, subscriptionId) ==
  \E j \in 1..Len(entry.subs) : entry.subs[j].id = subscriptionId

off(subscriptionId) ==
  IF \E i \in 1..Len(subscriptions) :
       HoldsSubscription(subscriptions[i], subscriptionId)
  THEN LET i == CHOOSE k \in 1..Len(subscriptions) :
                  /\ HoldsSubscription(subscriptions[k], subscriptionId)
                  /\ \A m \in 1..(k - 1) :
                       ~HoldsSubscription(subscriptions[m], subscriptionId)
           subs == subscriptions[i].subs
           index == CHOOSE j \in 1..Len(subs) :
                      /\ subs[j].id = subscriptionId
                      /\ \A m \in 1..(j - 1) : subs[m].id # subscriptionId
       IN  /\ subscriptions' =
                [subscriptions EXCEPT
                   ![i].subs = SubSeq(subs, 1, index - 1)
                               \o SubSeq(subs, index + 1, Len(subs))]
           /\ log' = << >>
           /\ lastOp' = Op("off", subs[index].shortcutId,
                           subscriptions[i].key, subscriptionId, TRUE)
  ELSE /\ log' = Warn("off", "")
       /\ lastOp' = Op("off", "", Undefined, subscriptionId, FALSE)
       /\ UNCHANGED subscriptions

Off(subscriptionId) ==
  /\ off(subscriptionId)
  /\ UNCHANGED <<shortcuts, options, lifecycle, activeContext,
                 sequenceBuffer, sequenceTimer, paused, timers, nextSubId,
                 fed, mark, idle, react>>

\* this.shortcuts[shortcutId] = config: an own key keeps its place, a new
\* one goes last
assigned(shortcutId, config) ==
  IF Own(shortcutId)
  THEN LET i == CHOOSE k \in 1..Len(shortcuts) :
                  shortcuts[k].id = shortcutId
       IN  [shortcuts EXCEPT ![i] = config]
  ELSE Append(shortcuts, config)

\* { ...currentConfig, ...config } (a spread that kept only config would be
\* merged_replaces)
merged_replaces(currentConfig, config) ==
  [f \in DOMAIN currentConfig |->
     IF f \in DOMAIN config THEN config[f]
     ELSE IF f = "id" THEN currentConfig[f] ELSE PrototypeMember[f]]
merged(currentConfig, config) ==
  [f \in DOMAIN currentConfig |->
     IF f \in DOMAIN config THEN config[f] ELSE currentConfig[f]]

updateShortcut(name, shortcutId, config) ==
  IF ~HasShortcut(shortcutId)
  THEN /\ log' = Warn(name, shortcutId)
       /\ lastOp' = Op(name, shortcutId, config, 0, FALSE)
       /\ UNCHANGED shortcuts
  ELSE /\ shortcuts' = assigned(shortcutId,
                              merged(Shortcut(shortcutId), config))
       /\ log' = << >>
       /\ lastOp' = Op(name, shortcutId, config, 0, TRUE)

RegistryFrame ==
  UNCHANGED <<subscriptions, options, lifecycle, activeContext,
              sequenceBuffer, sequenceTimer, paused, timers, nextSubId, fed,
              mark, idle, react>>

UpdateShortcut(shortcutId, config) ==
  /\ updateShortcut("updateShortcut", shortcutId, config)
  /\ RegistryFrame

EnableShortcut(shortcutId) ==
  /\ updateShortcut("enableShortcut", shortcutId, [status |-> "enabled"])
  /\ RegistryFrame

DisableShortcut(shortcutId) ==
  /\ updateShortcut("disableShortcut", shortcutId, [status |-> "disabled"])
  /\ RegistryFrame

RegisterShortcut(shortcutId, config) ==
  /\ shortcuts' = assigned(shortcutId, Entry(shortcutId, config))
  /\ log' = IF HasShortcut(shortcutId)
            THEN Warn("registerShortcut", shortcutId) ELSE << >>
  /\ lastOp' = Op("registerShortcut", shortcutId, Undefined, 0, TRUE)
  /\ RegistryFrame

UnregisterShortcut(shortcutId) ==
  /\ IF ~HasShortcut(shortcutId)
     THEN /\ log' = Warn("unregisterShortcut", shortcutId)
          /\ lastOp' = Op("unregisterShortcut", shortcutId, Undefined, 0, FALSE)
          /\ UNCHANGED shortcuts
     ELSE /\ shortcuts' = SelectSeq(shortcuts, LAMBDA c : c.id # shortcutId)
          /\ log' = << >>
          /\ lastOp' = Op("unregisterShortcut", shortcutId, Undefined, 0, TRUE)
  /\ RegistryFrame

SetContext(context) ==
  /\ activeContext' = context
  /\ log' = << >>
  /\ lastOp' = Op("setContext", context, Undefined, 0, TRUE)
  /\ UNCHANGED <<shortcuts, subscriptions, options, lifecycle,
                 sequenceBuffer, sequenceTimer, paused, timers, nextSubId,
                 fed, mark, idle, react>>

Pause ==
  /\ paused' = TRUE
  /\ log' = << >>
  /\ lastOp' = Op("pause", "", Undefined, 0, TRUE)
  /\ UNCHANGED <<shortcuts, subscriptions, options, lifecycle,
                 activeContext, sequenceBuffer, sequenceTimer, timers,
                 nextSubId, fed, mark, idle, react>>

Resume ==
  /\ paused' = FALSE
  /\ log' = << >>
  /\ lastOp' = Op("resume", "", Undefined, 0, TRUE)
  /\ UNCHANGED <<shortcuts, subscriptions, options, lifecycle,
                 activeContext, sequenceBuffer, sequenceTimer, timers,
                 nextSubId, fed, mark, idle, react>>

NoTarget == "undefined"
NoEvent == << >>

\* the closure of debounce() with no call pending
NoCall == [timeout |-> 0, args |-> NoEvent]

Listening(is, n) == [isListening |-> is, listeners |-> n]

startListening(state, target) ==
  IF state.isListening \/ target = NoTarget THEN state
  ELSE Listening(TRUE, state.listeners + 1)

\* stopListening (one that left the listener attached would be
\* stopListening_keeps)
stopListening_keeps(state, target) ==
  IF ~state.isListening \/ target = NoTarget THEN state
  ELSE Listening(FALSE, state.listeners)
stopListening(state, target) ==
  IF ~state.isListening \/ target = NoTarget THEN state
  ELSE Listening(FALSE, state.listeners - 1)

StopListening ==
  LET stopped == stopListening(Listening(isListening, listeners),
                               options.target)
  IN  /\ isListening' = stopped.isListening
      /\ listeners' = stopped.listeners
      /\ log' = << >>
      /\ lastOp' = Op("stopListening", "", Undefined, 0, isListening)
      /\ UNCHANGED <<shortcuts, subscriptions, options, debounce, calls,
                     destroyed,
                     activeContext, sequenceBuffer, sequenceTimer, paused,
                     timers, nextSubId, fed, mark, idle, react>>

Destroy ==
  LET stopped == stopListening(Listening(isListening, listeners),
                               options.target)
  IN  /\ isListening' = stopped.isListening
      /\ listeners' = stopped.listeners
      /\ subscriptions' = << >>
      /\ timers' = IF sequenceTimer # 0
                   THEN clearTimeout(timers, sequenceTimer)
                   ELSE timers
      /\ sequenceTimer' = 0
      /\ destroyed' = TRUE
      /\ log' = << >>
      /\ lastOp' = Op("destroy", "", Undefined, 0, isListening)
      /\ UNCHANGED <<shortcuts, options, debounce, calls, activeContext,
                     sequenceBuffer, paused, nextSubId, fed, mark, idle,
                     react>>

\* the listener made by debounce() receives a keydown event: the pending
\* call, if any, is dropped and this one waits for options.debounceTime (a
\* listener that kept the arguments of the pending call would be
\* Debounced_leading)
Debounced_leading(event) ==
  /\ listeners > 0
  /\ options.debounceTime > 0
  /\ debounce.timeout # 0 => Len(calls) < MaxBurst
  /\ debounce' = [timeout |-> 1,
                  args |-> IF debounce.timeout # 0 THEN debounce.args
                           ELSE event]
  /\ calls' = IF debounce.timeout # 0 THEN Append(calls, event) ELSE <<event>>
  /\ log' = << >>
  /\ lastOp' = Op("debounced", "", eventToKeyCombo(event), 0, TRUE)
  /\ UNCHANGED <<shortcuts, subscriptions, options, isListening, listeners,
                 destroyed, activeContext, sequenceBuffer, sequenceTimer,
                 paused, timers, nextSubId, fed, mark, idle, react>>
Debounced(event) ==
  /\ listeners > 0
  /\ options.debounceTime > 0
  /\ debounce.timeout # 0 => Len(calls) < MaxBurst
  /\ debounce' = [timeout |-> 1, args |-> event]
  /\ calls' = IF debounce.timeout # 0 THEN Append(calls, event) ELSE <<event>>
  /\ log' = << >>
  /\ lastOp' = Op("debounced", "", eventToKeyCombo(event), 0, TRUE)
  /\ UNCHANGED <<shortcuts, subscriptions, options, isListening, listeners,
                 destroyed, activeContext, sequenceBuffer, sequenceTimer,
                 paused, timers, nextSubId, fed, mark, idle, react>>

\* the timer of debounce() runs later(): the wait is over at some moment
\* while the call is pending
Later ==
  /\ debounce.timeout # 0
  /\ Len(fed) < MaxFed
  /\ debounce' = NoCall
  /\ keydownHandler(debounce.args)
  /\ UNCHANGED <<shortcuts, subscriptions, options, isListening, listeners,
                 calls, destroyed, activeContext, paused, nextSubId, react>>

----------------------------------------------------------------------------
(* The hooks: useShortcut of useShortcut.ts (exported also as useKey and   *)
(* useKeyboardShortcut), useKey of useKey.ts and useShortcut of            *)
(* KeyHubContext.tsx, called by one component under a KeyHubProvider       *)

HookKinds == {"useShortcut", "useKey", "context"}

\* no component has called a hook yet
NoHook ==
  [kind |-> "none", mounted |-> FALSE, phase |-> "idle", shortcutId |-> "",
   callback |-> 0, shortcuts |-> 0, subscriptionIdRef |-> EmptyId,
   isRegisteredRef |-> FALSE, cleanup |-> FALSE, returned |-> FALSE,
   created |-> {}]

\* the provider's shortcuts prop: the object the engine was constructed
\* with and keeps as this.shortcuts, or another object with its own keys
Shared == [object |-> 0, ids |-> {}]
Another == [object |-> 1, ids |-> {"save", "missing"}]

\* the own keys of the map the context provides
ProvidedKeys ==
  IF provided.object = Shared.object
  THEN {shortcuts[i].id : i \in 1..Len(shortcuts)}
  ELSE provided.ids

\* shortcutId in shortcuts
InShortcuts(shortcutId) ==
  shortcutId \in ProvidedKeys \/ shortcutId \in InheritedNames

\* the dependency list of the subscription effect
deps(kind, shortcutId, callback, object) ==
  IF kind = "useShortcut" THEN <<shortcutId, 0, object>>
  ELSE IF kind = "useKey" THEN <<shortcutId, callback, object>>
  ELSE <<shortcutId, callback, 0>>

\* the component renders: the hook returns isRegisteredRef.current as the
\* last effect left it, and the effect is scheduled if a dependency changed
Render(kind, shortcutId, callback, shortcuts_) ==
  LET first == hook.kind = "none"
      changed == deps(kind, shortcutId, callback, shortcuts_.object)
                   # deps(kind, hook.shortcutId, hook.callback,
                          hook.shortcuts)
  IN  /\ hook.phase = "idle"
      /\ first \/ (hook.mounted /\ kind = hook.kind)
      /\ provided' = shortcuts_
      /\ hook' = [hook EXCEPT
                    !.kind = kind,
                    !.mounted = TRUE,
                    !.shortcutId = shortcutId,
                    !.callback = callback,
                    !.shortcuts = shortcuts_.object,
                    !.returned = hook.isRegisteredRef,
                    !.phase = IF first THEN "effect"
                              ELSE IF changed THEN "cleanup" ELSE "idle"]
      /\ log' = << >>
      /\ lastOp' = Op("render", shortcutId, Undefined, 0, first \/ changed)
      /\ UNCHANGED <<shortcuts, subscriptions, options, lifecycle,
                     activeContext, sequenceBuffer, sequenceTimer, paused,
                     timers, nextSubId, fed, mark, idle>>

\* the component unmounts: the effect's cleanup is scheduled
Unmount ==
  /\ hook.phase = "idle"
  /\ hook.mounted
  /\ hook' = [hook EXCEPT !.mounted = FALSE, !.phase = "cleanup"]
  /\ log' = << >>
  /\ lastOp' = Op("unmount", hook.shortcutId, Undefined, 0, TRUE)
  /\ UNCHANGED <<shortcuts, subscriptions, options, lifecycle,
                 activeContext, sequenceBuffer, sequenceTimer, paused,
                 timers, nextSubId, fed, mark, idle, provided>>

\* if (subscriptionIdRef.current), the test before eventBus.off (a cleanup
\* that never called off would have releases_never)
releases_never(subscriptionId) == FALSE
releases(subscriptionId) == subscriptionId # EmptyId

\* the cleanup the last run of the effect returned, if it returned one
HookCleanup ==
  /\ hook.phase = "cleanup"
  /\ IF hook.cleanup /\ releases(hook.subscriptionIdRef)
     THEN off(hook.subscriptionIdRef)
     ELSE /\ log' = << >>
          /\ lastOp' = Op("cleanup", hook.shortcutId, Undefined, 0, FALSE)
          /\ UNCHANGED subscriptions
  /\ hook' = [hook EXCEPT
                !.subscriptionIdRef =
                  IF hook.cleanup THEN EmptyId ELSE hook.subscriptionIdRef,
                !.cleanup = FALSE,
                !.phase = IF hook.mounted THEN "effect" ELSE "idle"]
  /\ UNCHANGED <<shortcuts, options, lifecycle, activeContext,
                 sequenceBuffer, sequenceTimer, paused, timers, nextSubId,
                 fed, mark, idle, provided>>

\* the body of the subscription effect; the cleanup() it starts with in
\* useShortcut.ts finds the ref null or empty
HookEffect ==
  LET checked == hook.kind \in {"useShortcut", "useKey"}
      absent == checked /\ ~InShortcuts(hook.shortcutId)
      id == IF HasShortcut(hook.shortcutId) THEN nextSubId ELSE EmptyId
  IN  /\ hook.phase = "effect"
      /\ IF absent
         THEN /\ log' = Warn(hook.kind, hook.shortcutId)
              /\ lastOp' = Op("effect", hook.shortcutId, Undefined, 0, FALSE)
              /\ hook' = [hook EXCEPT
                            !.isRegisteredRef = FALSE,
                            !.cleanup = hook.kind = "useShortcut",
                            !.phase = "idle"]
              /\ UNCHANGED <<subscriptions, nextSubId>>
         ELSE /\ HasShortcut(hook.shortcutId) => nextSubId <= MaxSubs
              /\ on(hook.shortcutId, FALSE, nextSubId)
              /\ nextSubId' = IF HasShortcut(hook.shortcutId)
                              THEN nextSubId + 1 ELSE nextSubId
              /\ hook' = [hook EXCEPT
                            !.subscriptionIdRef = id,
                            !.isRegisteredRef =
                              IF hook.kind = "useShortcut" THEN id # EmptyId
                              ELSE IF hook.kind = "useKey" THEN TRUE
                              ELSE hook.isRegisteredRef,
                            !.cleanup = TRUE,
                            !.created =
                              IF id # EmptyId THEN hook.created \cup {id}
                              ELSE hook.created,
                            !.phase = "idle"]
      /\ UNCHANGED <<shortcuts, options, lifecycle, activeContext,
                     sequenceBuffer, sequenceTimer, paused, timers, fed,
                     mark, idle, provided>>

----------------------------------------------------------------------------
(* Construction *)

DEFAULT_OPTIONS ==
  [preventDefault |-> TRUE, stopPropagation |-> TRUE, target |-> "document",
   debounceTime |-> 0, ignoreInputFields |-> TRUE,
   ignoreModifierOnlyEvents |-> TRUE]

\* new EventBus(settings, opts)
Constructed(settings, opts) ==
  /\ shortcuts = settings
  /\ subscriptions = << >>
  /\ options = opts
  /\ isListening = startListening(Listening(FALSE, 0), opts.target).isListening
  /\ listeners = startListening(Listening(FALSE, 0), opts.target).listeners
  /\ debounce = NoCall
  /\ calls = << >>
  /\ destroyed = FALSE
  /\ activeContext = Null
  /\ sequenceBuffer = << >>
  /\ sequenceTimer = 0
  /\ paused = FALSE
  /\ timers = {}
  /\ nextSubId = 1
  /\ log = << >>
  /\ lastOp = Op("constructor", "", Undefined, 0, TRUE)
  /\ fed = << >>
  /\ mark = 0
  /\ idle = SequenceTimeout
  /\ hook = NoHook
  /\ provided = Shared

----------------------------------------------------------------------------
(* Chord dispatch: two definitions on the same chord, as print and         *)
(* goToFile of defaultShortcuts, with default actions as in the tests; the *)
(* key events arrive within one sequence window                            *)

CtrlP == << <<"ctrl", "p">> >>
UpperX == << <<"X">> >>
UpperCtrlP == << <<"Ctrl", "P">> >>
G == << <<"g">> >>
GC == << <<"g">>, <<"c">> >>

EvCtrlP == KeyEvent(TRUE, FALSE, FALSE, FALSE, "p", "body")
EvG == KeyEvent(FALSE, FALSE, FALSE, FALSE, "g", "body")
EvC == KeyEvent(FALSE, FALSE, FALSE, FALSE, "c", "body")

print == Entry("print", Regular(CtrlP, 100, NoContext, "ok"))
goToFile == Entry("goToFile", Regular(CtrlP, 90, "editor", "ok"))
gitCommands == Entry("gitCommands", Sequence(GC, 100, NoContext, "ok"))

\* the arguments of on(): the shortcut id, and whether the callback throws
ChordSubscribers ==
  {<<"print", FALSE>>, <<"print", TRUE>>, <<"goToFile", FALSE>>}
ChordEvents == {EvCtrlP}
ChordUpdates ==
  {<<"goToFile", [priority |-> 200]>>, <<"print", [keyCombo |-> UpperX]>>,
   <<"print", [keyCombo |-> UpperCtrlP]>>}
Contexts == {Null, "editor"}

Init == Constructed(<<print, goToFile>>, DEFAULT_OPTIONS)

Next ==
  \/ \E event \in ChordEvents : KeyDown(event)
  \/ \E subscriber \in ChordSubscribers : On(subscriber[1], subscriber[2])
  \/ \E subscriptionId \in 1..MaxSubs : Off(subscriptionId)
  \/ \E update \in ChordUpdates : UpdateShortcut(update[1], update[2])
  \/ EnableShortcut("print")
  \/ DisableShortcut("print")
  \/ \E context \in Contexts : SetContext(context)

Spec == Init /\ [][Next]_vars

----------------------------------------------------------------------------
(* Sequence matching: the sequence "g c" of defaultShortcuts.gitCommands,  *)
(* a chord on its last key, and a one-chord sequence registered at run     *)
(* time                                                                    *)

C == << <<"c">> >>

commit == Entry("commit", Regular(C, 100, NoContext, "ok"))
prefix == Sequence(G, 100, "vim", "ok")

SeqIds == {"gitCommands", "prefix"}
SeqEvents == {EvG, EvC}
SeqContexts == {Null, "vim"}

InitSeq == Constructed(<<gitCommands, commit>>, DEFAULT_OPTIONS)

NextSeq ==
  \/ \E event \in SeqEvents : KeyDown(event)
  \/ Tick
  \/ \E id \in SeqIds : nextSubId <= MaxSeqSubs /\ On(id, FALSE)
  \/ \E subscriptionId \in 1..MaxSeqSubs : Off(subscriptionId)
  \/ RegisterShortcut("prefix", prefix)
  \/ UnregisterShortcut("prefix")
  \/ EnableShortcut("gitCommands")
  \/ DisableShortcut("gitCommands")
  \/ \E context \in SeqContexts : SetContext(context)
  \/ Pause
  \/ Resume

SpecSeq == InitSeq /\ [][NextSeq]_vars

----------------------------------------------------------------------------
(* Listening and teardown: one shortcut with a default action, as save of  *)
(* the tests, with and without a target and with and without a debounce    *)
(* time                                                                    *)

CtrlS == << <<"ctrl", "s">> >>
EvCtrlS == KeyEvent(TRUE, FALSE, FALSE, FALSE, "s", "body")

save == Entry("save", Regular(CtrlS, 100, NoContext, "ok"))

LifeOptions ==
  {DEFAULT_OPTIONS,
   [DEFAULT_OPTIONS EXCEPT !.debounceTime = 1],
   [DEFAULT_OPTIONS EXCEPT !.target = NoTarget]}

InitLife == \E opts \in LifeOptions : Constructed(<<save>>, opts)

NextLife ==
  \/ KeyDown(EvCtrlS)
  \/ Debounced(EvCtrlS)
  \/ Later
  \/ Tick
  \/ On("save", FALSE)
  \/ \E subscriptionId \in 1..MaxSubs : Off(subscriptionId)
  \/ StopListening
  \/ Destroy

SpecLife == InitLife /\ [][NextLife]_vars

----------------------------------------------------------------------------
(* Bursts of key events on an engine with a debounce time: the shortcut    *)
(* save, its chord and another key; the timers of the host run in the end  *)

InitBurst ==
  Constructed(<<save>>, [DEFAULT_OPTIONS EXCEPT !.debounceTime = 1])

NextBurst ==
  \/ \E event \in {EvCtrlS, EvG} : Debounced(event)
  \/ Later
  \/ Tick
  \/ Pause
  \/ Resume

SpecBurst ==
  InitBurst /\ [][NextBurst]_vars /\ WF_vars(Later) /\ WF_vars(Tick)

----------------------------------------------------------------------------
(* The sequence timer: the sequence "g c" alone, its chords, the passing   *)
(* of time and teardown                                                    *)

InitTimer == Constructed(<<gitCommands>>, DEFAULT_OPTIONS)

NextTimer ==
  \/ \E event \in SeqEvents : KeyDown(event)
  \/ Tick
  \/ Pause
  \/ Resume
  \/ Destroy

SpecTimer == InitTimer /\ [][NextTimer]_vars

----------------------------------------------------------------------------
(* Modifier keys: the sequence "g c" alone, its chords, and key events     *)
(* whose key is itself a modifier, with ignoreModifierOnlyEvents set or not *)

EvControl == KeyEvent(TRUE, FALSE, FALSE, FALSE, "Control", "body")
EvShift == KeyEvent(FALSE, FALSE, TRUE, FALSE, "Shift", "body")
\* Alt goes down while Control is held
EvCtrlAlt == KeyEvent(TRUE, TRUE, FALSE, FALSE, "Alt", "body")

ModEvents == {EvG, EvC, EvControl, EvShift, EvCtrlAlt}

ModOptions ==
  {DEFAULT_OPTIONS, [DEFAULT_OPTIONS EXCEPT !.ignoreModifierOnlyEvents = FALSE]}

InitMod == \E opts \in ModOptions : Constructed(<<gitCommands>>, opts)

NextMod ==
  \/ \E event \in ModEvents : KeyDown(event)
  \/ Tick

SpecMod == InitMod /\ [][NextMod]_vars

----------------------------------------------------------------------------
(* A sequence whose trigger starts another's: "g", enabled or disabled and *)
(* with a context, and "g c" of gitCommands, in a registry that never      *)
(* changes                                                                 *)

prefixWith(status) == [Entry("prefix", prefix) EXCEPT !.status = status]

InitPrefix ==
  \E status \in {"enabled", "disabled"} :
    Constructed(<<gitCommands, prefixWith(status)>>, DEFAULT_OPTIONS)

NextPrefix ==
  \/ \E event \in SeqEvents : KeyDown(event)
  \/ Tick
  \/ nextSubId <= MaxSeqSubs /\ On("gitCommands", FALSE)
  \/ \E subscriptionId \in 1..MaxSeqSubs : Off(subscriptionId)
  \/ \E context \in SeqContexts : SetContext(context)

SpecPrefix == InitPrefix /\ [][NextPrefix]_vars

----------------------------------------------------------------------------
(* Two sequence definitions with the trigger "g c": gitCommands, with a    *)
(* default action that throws, and a second one with subscribers whose     *)
(* callbacks may throw                                                     *)

gitCommandsThrowing ==
  Entry("gitCommands", Sequence(GC, 100, NoContext, "throws"))
gitlog == Entry("gitlog", Sequence(GC, 100, NoContext, "ok"))

InitMulti == Constructed(<<gitCommandsThrowing, gitlog>>, DEFAULT_OPTIONS)

NextMulti ==
  \/ \E event \in SeqEvents : KeyDown(event)
  \/ \E throws \in BOOLEAN : On("gitlog", throws)
  \/ \E subscriptionId \in 1..MaxSubs : Off(subscriptionId)
  \/ \E id \in {"gitCommands", "gitlog"} : EnableShortcut(id)
  \/ \E id \in {"gitCommands", "gitlog"} : DisableShortcut(id)

SpecMulti == InitMulti /\ [][NextMulti]_vars

----------------------------------------------------------------------------
(* Registry and subscription table: the shortcut save of the tests, an id  *)
(* that is in no registry, and a name every plain object inherits          *)

saveConfig == Regular(CtrlS, 100, NoContext, "ok")

RegIds == {"save", "missing", "constructor"}
RegUpdates == {[priority |-> 50], [keyCombo |-> CtrlP, context |-> "editor"]}

\* getShortcuts(): { ...this.shortcuts }
getShortcuts == shortcuts

\* the map the caller gave to new EventBus(shortcuts, options): the
\* constructor keeps the reference (this.shortcuts = shortcuts), so the
\* caller's map is the object this.shortcuts
callerShortcuts == shortcuts

\* getShortcuts() of another EventBus constructed from the same map: its
\* this.shortcuts is that one object too
otherGetShortcuts == callerShortcuts

InitReg == Constructed(<<save>>, DEFAULT_OPTIONS)

NextReg ==
  \/ KeyDown(EvCtrlS)
  \/ \E id \in RegIds : On(id, FALSE)
  \/ \E id \in {"save", "missing"}, config \in RegUpdates :
       UpdateShortcut(id, config)
  \/ \E id \in {"save", "missing"} : EnableShortcut(id)
  \/ \E id \in {"save", "missing"} : DisableShortcut(id)
  \/ RegisterShortcut("save", saveConfig)
  \/ UnregisterShortcut("save")

SpecReg == InitReg /\ [][NextReg]_vars

\* subscribing and unsubscribing with the ids generateId() gives
NextSub ==
  \/ KeyDown(EvCtrlS)
  \/ OnGenerated("save", FALSE)
  \/ \E subscriptionId \in generateId : Off(subscriptionId)

SpecSub == InitReg /\ [][NextSub]_vars

----------------------------------------------------------------------------
(* A component with one hook under a provider of the shortcut save: it     *)
(* mounts, renders again with another id, callback or shortcuts map, and   *)
(* unmounts, while the engine's registry changes and keys are pressed      *)

HookIds == {"save", "missing"}
Callbacks == {0, 1}

InitHook == Constructed(<<save>>, DEFAULT_OPTIONS)

NextHook ==
  \/ \E kind \in HookKinds, id \in HookIds, callback \in Callbacks,
        shortcuts_ \in {Shared, Another} :
       Render(kind, id, callback, shortcuts_)
  \/ HookCleanup
  \/ HookEffect
  \/ Unmount
  \/ hook.phase = "idle" /\ KeyDown(EvCtrlS)
  \/ hook.phase = "idle" /\ UnregisterShortcut("save")
  \/ hook.phase = "idle" /\ RegisterShortcut("save", saveConfig)

SpecHook == InitHook /\ [][NextHook]_vars

----------------------------------------------------------------------------
(* Reading the log *)

IsHandler(entry) == entry.op \in {"callback", "action"}

Handlers(l) == SelectSeq(l, IsHandler)

\* the handlers chord dispatch (emit) invoked
EmitHandlers(l) ==
  SelectSeq(l, LAMBDA entry : IsHandler(entry) /\ entry.by # "sequence")

KeyRan == lastOp.name = "keydown" /\ lastOp.ran

\* the sequence matcher fired shortcut id
SequenceFired(l, id) ==
  \E i \in 1..Len(l) :
    l[i].op = "select" /\ l[i].by = "sequence" /\ l[i].id = id

\* the handlers invoked for the shortcut selected at position i
HandlersOf(l, i) ==
  LET later == {j \in (i + 1)..Len(l) : l[j].op = "select"}
      end == IF later = {} THEN Len(l)
             ELSE (CHOOSE j \in later : \A k \in later : j <= k) - 1
  IN  Handlers(SubSeq(l, i + 1, end))

\* the live subscriptions created by on(id, cb), highest priority first and
\* the earliest subscriber first among equal priorities
LiveSubscriptionsOf(id) ==
  sortByPriority(SelectSeq(AllSubscriptions, LAMBDA sub : sub.shortcutId = id))

\* the chords dispatched since the buffer was last emptied
Run(chords, from) == Join(SubSeq(chords, from + 1, Len(chords)))

----------------------------------------------------------------------------
(* Claims on sequence matching, checked under SpecSeq *)

\* C1: a key event executes zero or one handler, subscriber callbacks and
\* default actions of the sequence matcher and of chord dispatch together.
C1_AtMostOneHandlerPerEvent ==
  lastOp.name = "keydown" => Len(Handlers(log)) <= 1

\* C7: while paused a key event invokes no handler, applies neither
\* preventDefault nor stopPropagation and leaves the sequence buffer and its
\* timer alone; pause() and resume() change neither the registry, the
\* subscription table, the context nor the sequence buffer, which are all
\* that a later key event's dispatch depends on.
C7_PauseSuppressesDispatch ==
  [][/\ (paused /\ lastOp'.name = "keydown")
          => /\ log' = << >>
             /\ UNCHANGED <<sequenceBuffer, sequenceTimer, timers>>
     /\ lastOp'.name \in {"pause", "resume"}
          => UNCHANGED <<shortcuts, subscriptions, activeContext, options,
                         sequenceBuffer, sequenceTimer, timers>>]_vars

\* a key event on an enabled chord shortcut arrived while paused
C7_Witness ==
  /\ paused
  /\ lastOp.name = "keydown"
  /\ lastOp.chord = C
  /\ registryLog(C) # << >>
  /\ log = << >>

\* C8 as stated: from an empty buffer, the chords of an enabled,
\* context-matching sequence arriving in order within the timeout fire it on
\* the last chord.
C8_SequenceRoundTrip ==
  KeyRan =>
    \A i \in 1..Len(shortcuts) :
      (/\ shortcuts[i].type = "sequence"
       /\ shortcuts[i].status = "enabled"
       /\ ContextMatches(shortcuts[i])
       /\ shortcuts[i].sequence = Join(fed))
      => SequenceFired(log, shortcuts[i].id)

\* C8 amended: the same, when no earlier chord of the run completed the
\* trigger of a sequence definition, so that the run starts where the buffer
\* was last empty.
C8_SequenceRoundTripUnlessCleared ==
  [][(lastOp'.name = "keydown" /\ lastOp'.ran) =>
       \A i \in 1..Len(shortcuts) :
         (/\ shortcuts[i].type = "sequence"
          /\ shortcuts[i].status = "enabled"
          /\ ContextMatches(shortcuts[i])
          /\ shortcuts[i].sequence = Run(fed', mark))
         => SequenceFired(log', shortcuts[i].id)]_vars

\* "g" then "c" arrived within the timeout and fired gitCommands
C8_Witness ==
  /\ KeyRan
  /\ fed = <<G, C>>
  /\ SequenceFired(log, "gitCommands")

\* C9: when the timer expires the buffer is cleared; a sequence fires only
\* when its whole trigger arrived since the buffer was last emptied; and the
\* pending timer always runs from the last chord.
C9_TimeoutResetsSequence ==
  [][/\ (lastOp'.name = "tick" /\ lastOp'.ran) => sequenceBuffer' = << >>
     /\ (lastOp'.name = "keydown" /\ lastOp'.ran) =>
          \A i \in 1..Len(shortcuts) :
            (shortcuts[i].type = "sequence"
             /\ SequenceFired(log', shortcuts[i].id))
            => shortcuts[i].sequence = Run(fed', mark)
     /\ sequenceBuffer' # << >> =>
          timers' = {[h |-> sequenceTimer', left |-> SequenceTimeout - idle']}
    ]_vars

\* the timer expired with "g" alone in the buffer
C9_Witness ==
  /\ lastOp.name = "tick"
  /\ lastOp.ran
  /\ lastOp.chord = G
  /\ sequenceBuffer = << >>
  /\ \E i \in 1..Len(shortcuts) :
       /\ shortcuts[i].sequence = GC
       /\ shortcuts[i].status = "enabled"

\* C10: a completed sequence invokes the highest-priority live subscription
\* created by on(id, cb), and the default action only when id has no live
\* subscription.
C10_SequenceInvokesSubscriber ==
  KeyRan =>
    \A i \in 1..Len(log) :
      (log[i].op = "select" /\ log[i].by = "sequence") =>
        LET live == LiveSubscriptionsOf(log[i].id)
        IN  HandlersOf(log, i) =
              IF live # << >> THEN Callback("sequence", live[1])
              ELSE DefaultAction("sequence", Shortcut(log[i].id))

\* C27: a handler of a sequence shortcut is invoked only at a key event
\* after which the buffer, joined, is the shortcut's trigger; when the
\* buffer, joined, is no trigger, it has grown by the event's chord.
C27_SequenceFiresOnExactBuffer ==
  [][(lastOp'.name = "keydown" /\ lastOp'.ran) =>
       /\ \A k \in 1..Len(log') :
            (/\ IsHandler(log'[k])
             /\ Own(log'[k].id)
             /\ Shortcut(log'[k].id).type = "sequence")
            => Shortcut(log'[k].id).sequence = currentSequence(lastOp'.chord)
       /\ sequenceShortcuts(lastOp'.chord) = << >>
            => sequenceBuffer' = Append(sequenceBuffer, lastOp'.chord)
    ]_vars

\* C28: right after a key event that completed a sequence the buffer is
\* empty and no sequence timer is pending, and the chord of the next key
\* event is the first of a new buffer.
C28_MatchClearsBuffer ==
  [][(lastOp'.name = "keydown" /\ lastOp'.ran) =>
       /\ (\/ sequenceShortcuts(lastOp'.chord) # << >>
           \/ \E k \in 1..Len(log') : log'[k].by = "sequence")
            => /\ sequenceBuffer' = << >>
               /\ sequenceTimer' = 0
               /\ timers' = {}
       /\ (sequenceBuffer = << >> /\ sequenceShortcuts(lastOp'.chord) = << >>)
            => sequenceBuffer' = <<lastOp'.chord>>
    ]_vars

\* "g c" fired gitCommands and left the buffer empty
C28_Witness ==
  /\ KeyRan
  /\ fed = <<G, C>>
  /\ SequenceFired(log, "gitCommands")
  /\ sequenceBuffer = << >>
  /\ timers = {}

\* C30: a key event that is not dropped goes to the sequence matcher and
\* then to chord dispatch, and chord dispatch does what it does for that
\* chord, registry, subscription table and context, whatever the buffer held
\* and whether or not a sequence completed.
C30_ChordDispatchIndependent ==
  [][(lastOp'.name = "keydown" /\ lastOp'.ran) =>
       \E k \in 0..Len(log') :
         /\ \A i \in 1..k : log'[i].by = "sequence"
         /\ \A i \in (k + 1)..Len(log') : log'[i].by # "sequence"
         /\ SubSeq(log', k + 1, Len(log')) = emitLog(lastOp'.chord)
    ]_vars

\* "c" completed "g c" and was dispatched as the chord of commit as well
C30_Witness ==
  /\ KeyRan
  /\ lastOp.chord = C
  /\ SequenceFired(log, "gitCommands")
  /\ EmitHandlers(log) = DefaultAction("registry", commit)

\* C36: when the buffer, with the chord of a key event, is the trigger of
\* sequence definitions that are all disabled or out of context, no handler
\* of theirs is invoked and neither preventDefault nor stopPropagation is
\* applied for them, and the buffer is cleared and the timer cancelled.
C36_IneligibleMatchStillClears ==
  [][(/\ lastOp'.name = "keydown"
      /\ lastOp'.ran
      /\ sequenceShortcuts(lastOp'.chord) # << >>
      /\ \A i \in 1..Len(sequenceShortcuts(lastOp'.chord)) :
           LET config == sequenceShortcuts(lastOp'.chord)[i]
           IN  config.status = "disabled" \/ ~ContextMatches(config))
     => /\ \A k \in 1..Len(log') :
             \A i \in 1..Len(sequenceShortcuts(lastOp'.chord)) :
               log'[k].id # sequenceShortcuts(lastOp'.chord)[i].id
        /\ sequenceBuffer' = << >>
        /\ sequenceTimer' = 0
        /\ timers' = {}
    ]_vars

\* C39: the callback of a subscription of a sequence shortcut is invoked
\* by the sequence matcher alone, never by chord dispatch, and at most once
\* for a key event.
C39_SequenceSubscriptionByMatcherOnly ==
  KeyRan =>
    \A k \in 1..Len(log) :
      (/\ log[k].op = "callback"
       /\ Own(log[k].id)
       /\ Shortcut(log[k].id).type = "sequence")
      => /\ log[k].by = "sequence"
         /\ \A m \in 1..Len(log) :
              (log[m].op = "callback" /\ log[m].sub = log[k].sub) => m = k

\* how many entries of the log are the operation op
Count(l, op) == Len(SelectSeq(l, LAMBDA entry : entry.op = op))

\* C31: for a key event, preventDefault and stopPropagation are each applied
\* at most once by the sequence matcher and chord dispatch together, exactly
\* once when the option is set and a shortcut is selected, and before the
\* handler of the selected shortcut is invoked.
C31_SideEffectsOncePerEvent ==
  lastOp.name = "keydown" =>
    /\ Count(log, "preventDefault") <= 1
    /\ Count(log, "stopPropagation") <= 1
    /\ (options.preventDefault /\ Count(log, "select") > 0)
         => Count(log, "preventDefault") = 1
    /\ (options.stopPropagation /\ Count(log, "select") > 0)
         => Count(log, "stopPropagation") = 1
    /\ \A k \in 1..Len(log) :
         IsHandler(log[k]) =>
           /\ options.preventDefault =>
                \E i \in 1..(k - 1) : log[i].op = "preventDefault"
           /\ options.stopPropagation =>
                \E i \in 1..(k - 1) : log[i].op = "stopPropagation"

----------------------------------------------------------------------------
(* Claims on chord dispatch, checked under Spec *)

SameChord(config, chord) ==
  /\ config.type # "sequence"
  /\ normalizeKeyCombo(config.keyCombo) = normalizeKeyCombo(chord)

Eligible(config) == config.status = "enabled" /\ ContextMatches(config)

\* the eligible chord definitions on this chord that have a live subscriber
SubscribedCandidates(chord) ==
  {i \in 1..Len(shortcuts) :
     /\ SameChord(shortcuts[i], chord)
     /\ Eligible(shortcuts[i])
     /\ LiveSubscriptionsOf(shortcuts[i].id) # << >>}

\* C2: one run of chord dispatch invokes at most one handler, whether or
\* not the handler throws.
C2_ChordDispatchOneHandler ==
  lastOp.name = "keydown" => Len(EmitHandlers(log)) <= 1

\* C3: of two enabled, context-matching chord shortcuts on the same chord
\* that both have live subscribers, a key event invokes a subscriber of the
\* one whose definition has the higher priority now.
C3_HigherPriorityWins ==
  KeyRan =>
    LET candidates == SubscribedCandidates(lastOp.chord)
        top == {i \in candidates :
                  \A j \in candidates :
                    shortcuts[j].priority <= shortcuts[i].priority}
        invoked == EmitHandlers(log)
    IN  top # candidates =>
          /\ invoked # << >>
          /\ \A k \in 1..Len(invoked) :
               /\ invoked[k].op = "callback"
               /\ \E i \in top : shortcuts[i].id = invoked[k].id

\* C4: no handler of a shortcut that has a context is invoked while the
\* active context is null or another value.
C4_ContextGating ==
  \A k \in 1..Len(log) :
    (IsHandler(log[k]) /\ HasShortcut(log[k].id))
    => ContextMatches(Shortcut(log[k].id))

\* C5: between disableShortcut(id) and enableShortcut(id) no key event
\* invokes a subscriber callback or the default action of id.
C5_DisabledDoesNotFire ==
  \A k \in 1..Len(log) :
    (IsHandler(log[k]) /\ HasShortcut(log[k].id))
    => Shortcut(log[k].id).status # "disabled"

\* off() just removed the only live subscriber of an eligible chord
\* definition that has a default action, and the next key event has its chord
AfterOffOfOnlySubscriber ==
  /\ lastOp.name = "off"
  /\ lastOp.ran
  /\ lastOp'.name = "keydown"
  /\ lastOp'.ran
  /\ HasShortcut(lastOp.id)
  /\ SameChord(Shortcut(lastOp.id), lastOp'.chord)
  /\ Eligible(Shortcut(lastOp.id))
  /\ Shortcut(lastOp.id).action # "none"
  /\ LiveSubscriptionsOf(lastOp.id) = << >>

\* C6 as stated: after off() of the only live subscriber of an enabled,
\* context-matching shortcut with a default action, the next key event on its
\* chord invokes that default action exactly once, whatever else the registry
\* and the subscription table hold.
C6_DefaultActionAfterOff ==
  [][AfterOffOfOnlySubscriber =>
       Len(SelectSeq(log', LAMBDA entry :
                             entry.op = "action" /\ entry.id = lastOp.id)) = 1
    ]_vars

\* C6 amended: the same, when no live subscription is stored under the chord
\* or belongs to a shortcut whose trigger normalizes to it, and every other
\* enabled, context-matching chord definition on the chord has a lower
\* priority; chord dispatch then invokes nothing else.
C6_DefaultActionAfterOffWhenSelected ==
  [][(/\ AfterOffOfOnlySubscriber
      /\ getSubscriptions(normalizeKeyCombo(lastOp'.chord)) = << >>
      /\ fallbackCandidates(normalizeKeyCombo(lastOp'.chord)) = << >>
      /\ \A i \in 1..Len(shortcuts) :
           (/\ shortcuts[i].id # lastOp.id
            /\ SameChord(shortcuts[i], lastOp'.chord)
            /\ Eligible(shortcuts[i]))
           => shortcuts[i].priority < Shortcut(lastOp.id).priority)
     => EmitHandlers(log') = DefaultAction("registry", Shortcut(lastOp.id))
    ]_vars

\* goToFile lost its only subscriber, print is on the same chord, and the
\* next key event invoked goToFile's default action
C6_Witness ==
  /\ KeyRan
  /\ lastOp.chord = CtrlP
  /\ lastOp.id = "goToFile"
  /\ LiveSubscriptionsOf("goToFile") = << >>
  /\ \E i \in 1..Len(shortcuts) :
       shortcuts[i].id = "print" /\ SameChord(shortcuts[i], CtrlP)
  /\ EmitHandlers(log) = DefaultAction("registry", Shortcut("goToFile"))

\* C12: when the callback chosen for a shortcut throws, the event counts as
\* handled: no further callback and no default action of that shortcut is
\* invoked for the event.
C12_ThrowCountsAsHandled ==
  KeyRan =>
    \A i \in 1..Len(log) :
      (log[i].op = "callback" /\ log[i].threw) =>
        \A j \in (i + 1)..Len(log) :
          IsHandler(log[j]) => log[j].id # log[i].id

\* C20: when a regular shortcut has a live subscription and a key event that
\* is not dropped carries the chord its keyCombo normalizes to, chord dispatch
\* invokes one callback, the first of the chord's subscription list, once,
\* and no default action.
C20_SubscriberServedOnce ==
  KeyRan =>
    \A i \in 1..Len(shortcuts) :
      (/\ shortcuts[i].type = "regular"
       /\ LiveSubscriptionsOf(shortcuts[i].id) # << >>
       /\ normalizeKeyCombo(shortcuts[i].keyCombo)
            = normalizeKeyCombo(lastOp.chord))
      => LET direct == getSubscriptions(normalizeKeyCombo(lastOp.chord))
         IN  /\ Len(EmitHandlers(log)) = 1
             /\ EmitHandlers(log)[1].op = "callback"
             /\ direct # << >>
                  => EmitHandlers(log) = Callback("direct", direct[1])

\* C34: when no subscription is stored under the chord of a key event, chord
\* dispatch selects an enabled, context-matching chord definition on that
\* chord of the highest priority among such, and invokes the first live
\* subscription of its id if there is one, else its default action, else
\* nothing; with no such definition it invokes nothing.
C34_NoDirectSubscriptionSelection ==
  (KeyRan /\ getSubscriptions(normalizeKeyCombo(lastOp.chord)) = << >>) =>
    LET candidates == {i \in 1..Len(shortcuts) :
                         /\ SameChord(shortcuts[i], lastOp.chord)
                         /\ Eligible(shortcuts[i])}
        top == {i \in candidates :
                  \A j \in candidates :
                    shortcuts[j].priority <= shortcuts[i].priority}
    IN  IF candidates = {} THEN EmitHandlers(log) = << >>
        ELSE \E i \in top :
               LET live == LiveSubscriptionsOf(shortcuts[i].id)
               IN  EmitHandlers(log) =
                     IF live # << >> THEN Callback("fallback", live[1])
                     ELSE DefaultAction("registry", shortcuts[i])

\* C40: the subscribers of a regular shortcut follow its chord: a key event
\* invokes a callback of the shortcut only if its chord is the one the
\* shortcut's keyCombo normalizes to now, and when it is, the shortcut is
\* enabled and in context and no other such definition is on the chord, the
\* event invokes exactly one of the shortcut's live subscribers.
C40_SubscribersFollowChord ==
  KeyRan =>
    /\ \A k \in 1..Len(log) :
         (/\ log[k].op = "callback"
          /\ Own(log[k].id)
          /\ Shortcut(log[k].id).type = "regular")
         => SameChord(Shortcut(log[k].id), lastOp.chord)
    /\ \A i \in 1..Len(shortcuts) :
         (/\ shortcuts[i].type = "regular"
          /\ SameChord(shortcuts[i], lastOp.chord)
          /\ Eligible(shortcuts[i])
          /\ LiveSubscriptionsOf(shortcuts[i].id) # << >>
          /\ \A j \in 1..Len(shortcuts) :
               (j # i /\ SameChord(shortcuts[j], lastOp.chord))
               => ~Eligible(shortcuts[j]))
         => Len(SelectSeq(log, LAMBDA entry :
                            /\ entry.op = "callback"
                            /\ entry.id = shortcuts[i].id)) = 1

\* a comes before b in a subscription list: the higher priority, and of two
\* equal priorities the earlier subscriber
Precedes(a, b) ==
  a.priority > b.priority \/ (a.priority = b.priority /\ a.id < b.id)

\* C23: every subscription list is ordered by priority descending and,
\* among equal priorities, by subscribe time, and the subscriber a key event
\* on the list's chord fires is the one no other of the list precedes.
C23_ListsOrderedByPriority ==
  /\ \A k \in 1..Len(subscriptions) :
       \A i, j \in 1..Len(subscriptions[k].subs) :
         i < j => Precedes(subscriptions[k].subs[i], subscriptions[k].subs[j])
  /\ KeyRan =>
       LET direct == getSubscriptions(normalizeKeyCombo(lastOp.chord))
       IN  direct # << >> =>
             \E i \in 1..Len(direct) :
               /\ \A j \in 1..Len(direct) :
                    j # i => Precedes(direct[i], direct[j])
               /\ EmitHandlers(log) = Callback("direct", direct[i])

\* the later subscriber, of the higher priority, stands first and fired
C23_Witness ==
  /\ KeyRan
  /\ lastOp.chord = CtrlP
  /\ Len(getSubscriptions(CtrlP)) = 2
  /\ getSubscriptions(CtrlP)[1].id > getSubscriptions(CtrlP)[2].id
  /\ getSubscriptions(CtrlP)[1].priority > getSubscriptions(CtrlP)[2].priority
  /\ EmitHandlers(log) = Callback("direct", getSubscriptions(CtrlP)[1])

\* C25: the subscription table is keyed by shortcut id: every subscription
\* stored under a key has that key as its shortcutId.
C25_TableKeyedByShortcutId ==
  \A k \in 1..Len(subscriptions) :
    \A i \in 1..Len(subscriptions[k].subs) :
      subscriptions[k].key = Str(subscriptions[k].subs[i].shortcutId)

----------------------------------------------------------------------------
(* Claims on listening and teardown, checked under SpecLife *)

\* C11: once destroy() has returned, no subscriber callback and no default
\* action is invoked again, whatever was pending.
C11_NoDispatchAfterDestroy == destroyed => Handlers(log) = << >>

\* C19: the target holds at most one keydown listener of the engine: one
\* after construction with a target, none after stopListening() or
\* destroy(), and a repeated destroy() removes nothing.
C19_AtMostOneListener ==
  [][/\ lastOp.name = "constructor"
          => listeners = IF options.target = NoTarget THEN 0 ELSE 1
     /\ listeners' \in {0, 1}
     /\ lastOp'.name \in {"stopListening", "destroy"} => listeners' = 0
     /\ (destroyed /\ lastOp'.name = "destroy") => listeners' = listeners
     /\ destroyed => listeners = 0
    ]_vars

\* destroy() was called again on an engine that had a target
C19_Witness ==
  /\ destroyed
  /\ lastOp.name = "destroy"
  /\ ~lastOp.ran
  /\ options.target # NoTarget
  /\ listeners = 0

----------------------------------------------------------------------------
(* Claims on bursts of key events, checked under SpecBurst *)

\* C33: with a debounce time, a call of the listener runs nothing of the
\* handler; the handler runs only for a pending call, with the event of the
\* last call of the burst, and leaves no call pending, so once per burst;
\* and a pending call does run.
C33_DebounceRunsTrailingCall ==
  /\ [][/\ lastOp'.name = "debounced" =>
              /\ log' = << >>
              /\ UNCHANGED <<sequenceBuffer, sequenceTimer, timers, fed>>
              /\ debounce'.timeout # 0
        /\ lastOp'.name = "keydown" =>
              /\ debounce.timeout # 0
              /\ calls # << >>
              /\ lastOp'.chord = eventToKeyCombo(calls[Len(calls)])
              /\ debounce' = NoCall
       ]_vars
  /\ (debounce.timeout # 0) ~> (debounce = NoCall /\ lastOp.name = "keydown")

\* "g" and then ctrl+s came in one burst: the handler ran for ctrl+s alone
C33_Witness ==
  /\ lastOp.name = "keydown"
  /\ lastOp.ran
  /\ calls = <<EvG, EvCtrlS>>
  /\ debounce = NoCall
  /\ fed = <<CtrlS>>
  /\ sequenceBuffer = <<CtrlS>>
  /\ Handlers(log) = DefaultAction("registry", save)

----------------------------------------------------------------------------
(* Claims on the sequence timer, checked under SpecTimer *)

\* C26: at most one sequence timer is pending: a chord that reaches the
\* sequence matcher and completes no sequence leaves exactly the timer it
\* started, with the whole timeout to run; a chord that completes a sequence
\* and destroy() leave none.
C26_OneSequenceTimer ==
  [][/\ Cardinality(timers') <= 1
     /\ (lastOp'.name = "keydown" /\ lastOp'.ran) =>
          IF Len(sequenceShortcuts(lastOp'.chord)) > 0
          THEN timers' = {} /\ sequenceTimer' = 0
          ELSE timers' = {[h |-> sequenceTimer', left |-> SequenceTimeout]}
     /\ lastOp'.name = "destroy" => (timers' = {} /\ sequenceTimer' = 0)
    ]_vars

\* destroy() found a chord in the buffer and its timer running
C26_Witness ==
  /\ lastOp.name = "destroy"
  /\ lastOp.ran
  /\ sequenceBuffer = <<G>>
  /\ timers = {}
  /\ sequenceTimer = 0

\* C35: when destroy() has returned the listener is detached, the
\* subscription table is empty, no sequence timer is pending and the
\* sequence buffer is empty.
C35_DestroyTearsDown ==
  lastOp.name = "destroy" =>
    /\ listeners = 0
    /\ ~isListening
    /\ subscriptions = << >>
    /\ sequenceTimer = 0
    /\ timers = {}
    /\ sequenceBuffer = << >>

----------------------------------------------------------------------------
(* Claims on modifier keys, checked under SpecMod *)

\* the chord is one or more of ctrl, alt, shift, meta and no other key
ModifierOnly(keyCombo) ==
  /\ Len(keyCombo) = 1
  /\ \A i \in 1..Len(keyCombo[1]) :
       keyCombo[1][i] \in {"ctrl", "alt", "shift", "meta"}

\* C32: with ignoreModifierOnlyEvents set, a key event whose chord is made
\* of modifiers only invokes no handler and leaves the sequence buffer and
\* its timer as they are.
C32_ModifierOnlyDropped ==
  [][(/\ lastOp'.name = "keydown"
      /\ options.ignoreModifierOnlyEvents
      /\ ModifierOnly(lastOp'.chord))
     => /\ log' = << >>
        /\ UNCHANGED <<sequenceBuffer, sequenceTimer, timers>>
    ]_vars

----------------------------------------------------------------------------
(* Claims on a sequence that starts another, checked under SpecPrefix *)

\* the chords of a are the first chords of b, and b has more
ProperPrefix(a, b) == Len(a) < Len(b) /\ SubSeq(b, 1, Len(a)) = a

----------------------------------------------------------------------------
(* Claims on several sequences with one trigger, checked under SpecMulti *)

\* the positions of the log where the sequence matcher selected a shortcut
SequenceSelections(l) ==
  SelectSeq([i \in 1..Len(l) |-> i],
            LAMBDA i : l[i].op = "select" /\ l[i].by = "sequence")

\* C29: when the buffer equals the trigger of several sequence definitions,
\* the enabled, context-matching ones are served in registry order, each has
\* exactly one handler invoked if it has a live subscription or a default
\* action, whether or not a handler throws, and the buffer is cleared.
C29_EveryMatchingSequenceFiresOnce ==
  [][(lastOp'.name = "keydown" /\ lastOp'.ran) =>
       LET matches == sequenceShortcuts(lastOp'.chord)
           eligible == SelectSeq(matches,
                                 LAMBDA config : /\ config.status = "enabled"
                                                 /\ ContextMatches(config))
           at == SequenceSelections(log')
       IN  /\ Len(at) = Len(eligible)
           /\ \A i \in 1..Len(at) :
                /\ log'[at[i]].id = eligible[i].id
                /\ Len(HandlersOf(log', at[i])) <= 1
                /\ (\/ eligible[i].action # "none"
                    \/ LiveSubscriptionsOf(eligible[i].id) # << >>)
                     => Len(HandlersOf(log', at[i])) = 1
           /\ matches # << >> => sequenceBuffer' = << >>
    ]_vars

----------------------------------------------------------------------------
(* Claims on the registry and the subscription table, checked under        *)
(* SpecReg and SpecSub                                                     *)

\* C13: the callback of a subscription whose shortcut id is not in the
\* registry is never invoked.
C13_OrphanSubscriptionInert ==
  \A k \in 1..Len(log) : log[k].op = "callback" => Own(log[k].id)

\* C14: for an id that is not in the registry, on, updateShortcut,
\* enableShortcut and disableShortcut warn and change neither the registry
\* nor the subscription table, and on returns the empty string.
C14_AbsentIdIsNoOp ==
  [][(/\ lastOp'.name \in {"on", "updateShortcut", "enableShortcut",
                           "disableShortcut"}
      /\ ~Own(lastOp'.id))
     => /\ log' = Warn(lastOp'.name, lastOp'.id)
        /\ UNCHANGED <<shortcuts, subscriptions>>
        /\ lastOp'.name = "on" => lastOp'.n = EmptyId
    ]_vars

\* the subscriptions of a list other than those on() returned id for
Others(subs, id) == SelectSeq(subs, LAMBDA sub : sub.id # id)

\* C15: off(id) removes the subscription on() returned id for and leaves
\* every other subscription in place and in order; off with an id that is
\* not live leaves the subscription table unchanged.
C15_OffRemovesExactlyOne ==
  [][lastOp'.name = "off" =>
       IF \E i \in 1..Len(AllSubscriptions) :
            AllSubscriptions[i].id = lastOp'.n
       THEN /\ \A i \in 1..Len(AllSubscriptions') :
                 AllSubscriptions'[i].id # lastOp'.n
            /\ Len(subscriptions') = Len(subscriptions)
            /\ \A i \in 1..Len(subscriptions) :
                 /\ subscriptions'[i].key = subscriptions[i].key
                 /\ Others(subscriptions'[i].subs, lastOp'.n)
                      = Others(subscriptions[i].subs, lastOp'.n)
       ELSE subscriptions' = subscriptions
    ]_vars

\* the partial configuration of the update just made
Partial ==
  IF lastOp'.name = "enableShortcut" THEN [status |-> "enabled"]
  ELSE IF lastOp'.name = "disableShortcut" THEN [status |-> "disabled"]
  ELSE lastOp'.chord

\* C16: for an id in the registry, updateShortcut(id, partial) sets exactly
\* the fields partial names, in that definition alone, and leaves the
\* subscription table unchanged; getShortcuts() shows the change;
\* enableShortcut and disableShortcut are the update of status.
C16_UpdateChangesNamedFields ==
  [][(/\ lastOp'.name \in {"updateShortcut", "enableShortcut",
                           "disableShortcut"}
      /\ Own(lastOp'.id))
     => /\ subscriptions' = subscriptions
        /\ Len(getShortcuts') = Len(shortcuts)
        /\ \A i \in 1..Len(shortcuts) :
             \A f \in DOMAIN shortcuts[i] :
               getShortcuts'[i][f] =
                 IF shortcuts[i].id = lastOp'.id /\ f \in DOMAIN Partial
                 THEN Partial[f] ELSE shortcuts[i][f]
    ]_vars

\* save, disabled earlier, got a new chord and a context and kept its
\* status, priority and action
C16_Witness ==
  /\ lastOp.name = "updateShortcut"
  /\ lastOp.id = "save"
  /\ lastOp.ran
  /\ DOMAIN lastOp.chord = {"keyCombo", "context"}
  /\ Own("save")
  /\ Shortcut("save").keyCombo = CtrlP
  /\ Shortcut("save").status = "disabled"
  /\ Shortcut("save").priority = 100

\* C24: a subscription is made with the priority its shortcut has when on()
\* is called and keeps it; updateShortcut, enableShortcut, disableShortcut,
\* registerShortcut and unregisterShortcut leave the subscription table as
\* it is.
C24_PrioritySnapshot ==
  [][/\ (lastOp'.name = "on" /\ lastOp'.ran) =>
          \E i \in 1..Len(AllSubscriptions') :
            /\ AllSubscriptions'[i].id = lastOp'.n
            /\ AllSubscriptions'[i].priority = Shortcut(lastOp'.id).priority
     /\ \A i \in 1..Len(AllSubscriptions) :
          \A j \in 1..Len(AllSubscriptions') :
            AllSubscriptions'[j].id = AllSubscriptions[i].id =>
              AllSubscriptions'[j].priority = AllSubscriptions[i].priority
     /\ lastOp'.name \in {"updateShortcut", "enableShortcut",
                          "disableShortcut", "registerShortcut",
                          "unregisterShortcut"}
          => subscriptions' = subscriptions
    ]_vars

\* save was subscribed to at priority 100 and again after its priority was
\* set to 50: the first subscription still has 100
C24_Witness ==
  /\ lastOp.name = "on"
  /\ lastOp.ran
  /\ Own("save")
  /\ Shortcut("save").priority = 50
  /\ Len(getSubscriptions(CtrlS)) = 2
  /\ getSubscriptions(CtrlS)[1].priority = 100
  /\ getSubscriptions(CtrlS)[2].priority = 50

\* C38: registerShortcut, updateShortcut, enableShortcut, disableShortcut
\* and unregisterShortcut on an engine change neither the map its caller
\* gave to the constructor nor what getShortcuts() returns on another engine
\* constructed from that map.
C38_EngineOwnsRegistry ==
  [][lastOp'.name \in {"registerShortcut", "updateShortcut",
                       "enableShortcut", "disableShortcut",
                       "unregisterShortcut"}
     => /\ callerShortcuts' = callerShortcuts
        /\ otherGetShortcuts' = otherGetShortcuts
    ]_vars

----------------------------------------------------------------------------
(* normalizeKeyCombo as a function: the strings given to it are built from *)
(* a few parts, in either case, with aliases, repeated or empty            *)

Parts == {"", "Ctrl", "Control", "shift", "S", "s", "escape"}

\* the sequences over a set of length 1..n
SeqsUpTo(set, n) == UNION {[1..k -> set] : k \in 1..n}

\* strings without a space
Chords == SeqsUpTo(Parts, MaxParts)

NormInputs ==
  {Undefined} \cup {<<chord>> : chord \in Chords}
    \cup {[i \in DOMAIN parts |-> <<parts[i]>>] :
            parts \in SeqsUpTo(Parts, MaxChords)}

\* the call normalizeKeyCombo(keyCombo), made, and what it returned
Normalized(keyCombo) ==
  Returned("normalizeKeyCombo", "", keyCombo, 0, TRUE,
           normalizeKeyCombo(keyCombo))

InitNorm ==
  \E keyCombo \in NormInputs :
    /\ shortcuts = << >>
    /\ subscriptions = << >>
    /\ options = DEFAULT_OPTIONS
    /\ isListening = FALSE
    /\ listeners = 0
    /\ debounce = NoCall
    /\ calls = << >>
    /\ destroyed = FALSE
    /\ activeContext = Null
    /\ sequenceBuffer = << >>
    /\ sequenceTimer = 0
    /\ paused = FALSE
    /\ timers = {}
    /\ nextSubId = 1
    /\ log = << >>
    /\ lastOp = Op("normalizeKeyCombo", "", keyCombo, 0, FALSE)
    /\ fed = << >>
    /\ mark = 0
    /\ idle = SequenceTimeout
    /\ hook = NoHook
    /\ provided = Shared

NormFrame ==
  UNCHANGED <<shortcuts, subscriptions, options, lifecycle, activeContext,
              sequenceBuffer, sequenceTimer, paused, timers, nextSubId, log,
              fed, mark, idle, react>>

\* normalizeKeyCombo applied to the string given
Normalize ==
  /\ ~lastOp.ran
  /\ lastOp' = Normalized(lastOp.chord)
  /\ NormFrame

\* normalizeKeyCombo applied to a string it returned
Renormalize ==
  /\ lastOp.ran
  /\ lastOp' = Normalized(lastOp.ret)
  /\ NormFrame

NextNorm == Normalize \/ Renormalize

SpecNorm == InitNorm /\ [][NextNorm]_vars

----------------------------------------------------------------------------
(* Claims on normalizeKeyCombo, checked under SpecNorm                     *)

\* C17: normalizeKeyCombo is idempotent: applied to a string it returned,
\* for a chord, a sequence or the empty string, it returns that string.
C17_NormalizeIdempotent ==
  (lastOp.name = "normalizeKeyCombo" /\ lastOp.ran) =>
    normalizeKeyCombo(lastOp.ret) = lastOp.ret

\* a sequence with an upper-case alias and a key with a short name went
\* through twice
C17_Witness ==
  /\ lastOp.name = "normalizeKeyCombo"
  /\ lastOp.ran
  /\ lastOp.chord = << <<"ctrl">>, <<"esc">> >>
  /\ lastOp.ret = lastOp.chord

\* the set of modifiers of a chord, after alias mapping
ModifiersOf(chord) ==
  {normalizeModifier(toLowerCase(chord[i])) :
     i \in {j \in 1..Len(chord) : toLowerCase(chord[j]) \in ModifierNames}}

\* the key tokens of a chord, in order, whatever their case
KeyTokensOf(chord) ==
  SelectSeq([i \in 1..Len(chord) |-> toLowerCase(chord[i])],
            LAMBDA p : p \notin ModifierNames)

\* 'a' < 'c' < 'm' < 's'
Rank(mod) == CHOOSE i \in 1..Len(ModifierOrder) : ModifierOrder[i] = mod

\* C18: two chords with the same set of modifiers after alias mapping and
\* the same key tokens in the same order, whatever the case, the order and
\* the repetition of the modifiers, normalize to the same string: the
\* modifiers once each in lexicographic order, then the key tokens.
C18_SpellingInsensitive ==
  (lastOp.name = "normalizeKeyCombo" /\ lastOp.ran
     /\ Len(lastOp.chord) = 1) =>
    LET x == lastOp.chord[1]
        r == lastOp.ret[1]
    IN  /\ \A y \in Chords :
             (ModifiersOf(y) = ModifiersOf(x)
                /\ KeyTokensOf(y) = KeyTokensOf(x))
               => normalizeKeyCombo(<<y>>) = lastOp.ret
        /\ \E k \in 0..Len(r) :
             /\ {r[i] : i \in 1..k} = ModifiersOf(x)
             /\ \A i, j \in 1..k : i < j => Rank(r[i]) < Rank(r[j])
             /\ \A i \in (k + 1)..Len(r) : r[i] \notin ModifierNames
             /\ SelectSeq(SubSeq(r, k + 1, Len(r)), LAMBDA p : p # "")
                  = SelectSeq([i \in 1..Len(KeyTokensOf(x)) |->
                                 normalizeMainKey(KeyTokensOf(x)[i])],
                              LAMBDA p : p # "")

\* shift+Control+S gave ctrl+shift+s
C18_Witness ==
  /\ lastOp.name = "normalizeKeyCombo"
  /\ lastOp.ran
  /\ lastOp.chord = << <<"shift", "Control", "S">> >>
  /\ lastOp.ret = << <<"ctrl", "shift", "s">> >>

----------------------------------------------------------------------------
(* Claims on the hooks, checked under SpecHook *)

\* C21: what useShortcut / useKey returns on a render, the first one
\* included, is whether the shortcut id is a key of the provider's shortcuts.
C21_HookReturnsRegistered ==
  [][(lastOp'.name = "render" /\ hook'.kind \in {"useShortcut", "useKey"})
       => hook'.returned = (hook'.shortcutId \in ProvidedKeys')
    ]_vars

\* the subscriptions in the table that the hook created
LiveCreated ==
  SelectSeq(AllSubscriptions, LAMBDA sub : sub.id \in hook.created)

====
